---- MODULE Spec2Model ----
(***************************************************************************)
(* Services of the ride-share platform: driver matching, payload           *)
(* encryption, the ride life cycle and pricing.                            *)
(*                                                                         *)
(* Two binaries of the repository implement driver matching:               *)
(*   - backend/matching-service/main.go : DriverStore, a map of drivers    *)
(*     plus an S2 cell index (cell -> slice of driver ids), queried by     *)
(*     FindNearestDriver from matchHandler with a 10 km radius;            *)
(*   - unnamed/part_001 : SpatialIndex, a map of drivers scanned linearly  *)
(*     by findMatch from the /match handler with a 5 km radius.            *)
(* A behaviour is one run of one of the two binaries (variable service).    *)
(*   Spec     : the requests of either binary, each handler one step (the  *)
(*              store's mutex makes AddDriver and FindNearestDriver        *)
(*              atomic with respect to each other);                        *)
(*   SpecTime : Spec with the clock running;                               *)
(*   SpecLock : DriverStore with AddDriver taken phase by phase under the  *)
(*              RWMutex, against a concurrent FindNearestDriver.           *)
(*   SpecLockFair : SpecLock with the fairness of the Go scheduler and of  *)
(*              sync.RWMutex.                                              *)
(* The other services are separate binaries (other values of service):     *)
(*   SpecSafety : unnamed/part_003, EncryptionService (AES-256-GCM);       *)
(*   SpecRides  : unnamed/part_002, the ride and return-to-base handlers,  *)
(*              two goroutines, locked section and response encoding as    *)
(*              separate steps;                                            *)
(*   SpecPrice  : backend/safety-verification-service/main.go, handlePrice *)
(*              in exact fixed-point arithmetic with NaN.                  *)
(*                                                                         *)
(* Geometry.  Positions lie on an integer grid; GridPerCell grid steps     *)
(* make one level-15 cell (about CellSizeM metres), so a cell holds        *)
(* several distinct positions.  Lat is the row, Lng the column.  Distance  *)
(* is the planar distance in whole metres, which orders positions as the   *)
(* great-circle distance does at city scale.                               *)
(***************************************************************************)
EXTENDS Integers, Sequences, FiniteSets, TLC

VARIABLES
    service,     \* which binary runs: "store" (main.go), "index" (part_001), ...
    drivers,     \* DriverStore.drivers : map id -> Driver
    s2Index,     \* DriverStore.s2Index : map cell -> slice of ids
    siDrivers,   \* SpatialIndex.drivers : map id -> Driver
    now,         \* time.Now(), seconds
    request,     \* the MatchRequest served by this step (NoRequest if none)
    response,    \* the MatchResponse written by this step (NoResponse if none)
    audit,       \* the records this step's request wrote to the audit stream
    mu,          \* DriverStore.mu as seen by the stepwise writer and reader
    wpc,         \* position of the goroutine inside AddDriver
    wreq,        \* the *Driver argument of the AddDriver in progress
    rpc,         \* position of the goroutine inside FindNearestDriver
    svc,         \* the *EncryptionService held by the caller (NilService if none)
    plaintext,   \* the plaintext last given to Encrypt
    ciphertext,  \* the bytes last returned by Encrypt
    cryptoCall,  \* the last call of the encryption service and what it returned
    rides,       \* RideStore.rides : map id -> Ride
    logs,        \* ReturnToBaseStore.logs : map id -> ReturnToBaseLog
    rideMu,      \* the goroutine holding rideStore.mu ("" if free)
    reqs,        \* the ride-service requests in flight, one per goroutine
    rideResp,    \* the response last written by a ride-service handler
    priceReq,    \* the query last parsed by handlePrice
    priceResp    \* the response handlePrice wrote for it

safetyVars == <<svc, plaintext, ciphertext, cryptoCall>>
rideVars == <<rides, logs, rideMu, reqs, rideResp>>
priceVars == <<priceReq, priceResp>>

\* what the matching binaries never touch
otherVars == <<safetyVars, rideVars, priceVars>>

vars == <<service, drivers, s2Index, siDrivers, now, request, response, audit, mu, wpc, wreq,
          rpc, otherVars>>

-----------------------------------------------------------------------------
(* Bounds of the model *)

MaxLat == 2
MaxTicks == 1
MaxPeers == 1
MaxByte == 3
MaxPlainLen == 2
MaxDemand == 7
MaxSupply == 2
GridPerCell == 2

DriverIDs == {"driver-001", "driver-002"}

(* Program constants *)

CellSizeM == 1000
MatchRadiusKM == 10
FindMatchRadiusKm == 5
MaxFloat64 == 100000000
MaxLatDeg == 90
MaxLngDeg == 180
EarthRadiusKm == 6371
StaleThreshold == 30
KeySize == 32
NonceSize == 12
TagSize == 16
AES128KeySize == 16
AES192KeySize == 24
ShortKeyLen == 9
DropoffLat == 52
DropoffLon == 13
BaseLat == 52
BaseLon == 13

\* main.go:108-129, in 1/100000 EUR and in hundredths
MinimumFareEUR == 500000
MaxSurgeMultiplier == 200
BaseRateEUR == 350000
PricePerKmEUR == 180000
PricePerMinuteEUR == 35000
MinPricePerKmEUR == 150000
\* the limits of validatePriceRequest, in tenths of a km and of a minute
MaxDistanceKm == 5000
MaxDurationMin == 6000
DefaultDemand == 10
DefaultSupply == 10
\* the demand/supply ratio from which the multiplier is the maximum
FullSurgeRatio == 3
\* the units: tenths per km and per minute, hundredths per multiplier 1.0,
\* 1/100000 EUR per cent
DistanceScale == 10
DurationScale == 10
SurgeScale == 100
CentScale == 1000

UnitM == CellSizeM \div GridPerCell
TickSeconds == StaleThreshold + 1
MaxTime == MaxTicks * TickSeconds

\* kilometres in one degree of a great circle (pi as 355/113), grid steps per
\* degree, and one latitude just outside [-90, 90]
KmPerDegree == (EarthRadiusKm * 355) \div (113 * 180)
GridPerDegree == KmPerDegree * GridPerCell
BadLat == MaxLatDeg * GridPerDegree + 1

MaxLng == MaxLat + 1
Lats == 0..MaxLat
Lngs == 0..MaxLng
Positions == Lats \X Lngs
QueryRadii == {UnitM, CellSizeM, FindMatchRadiusKm * 1000, MatchRadiusKM * 1000}

-----------------------------------------------------------------------------
(* Geometry *)

\* metres between two grid points, indexed by the coordinate differences
DistTable ==
    [dlat \in 0..(MaxLat + 1), dlng \in 0..(MaxLng + 1) |->
        LET k == dlat * dlat + dlng * dlng
            s == CHOOSE r \in 0..(dlat + dlng) : r * r <= k /\ (r + 1) * (r + 1) > k
        IN  \* floor(UnitM * sqrt(k)), searched from UnitM * floor(sqrt(k))
            CHOOSE m \in (UnitM * s)..(UnitM * (s + 1)) :
                m * m <= UnitM * UnitM * k /\ (m + 1) * (m + 1) > UnitM * UnitM * k]

Abs(i) == IF i < 0 THEN -i ELSE i

\* riderLatLng.Distance(driverLatLng).Radians() * 6371.0, in metres.  Off the
\* grid (a coordinate the handler did not validate) the larger coordinate
\* difference stands for it: a lower bound that is beyond every radius.
Distance(lat1, lng1, lat2, lng2) ==
    LET dlat == Abs(lat1 - lat2)
        dlng == Abs(lng1 - lng2)
    IN  IF dlat <= MaxLat + 1 /\ dlng <= MaxLng + 1
        THEN DistTable[dlat, dlng]
        ELSE UnitM * (IF dlat > dlng THEN dlat ELSE dlng)

\* s2.CellIDFromLatLng(...).Parent(15)
CellID(lat, lng) == <<lat \div GridPerCell, lng \div GridPerCell>>

\* s2.CellID.EdgeNeighbors: down, right, up, left
EdgeNeighbors(c) ==
    << <<c[1] - 1, c[2]>>, <<c[1], c[2] + 1>>, <<c[1] + 1, c[2]>>, <<c[1], c[2] - 1>> >>

-----------------------------------------------------------------------------
(* Go maps *)

MapPut(m, k, v) == [x \in (DOMAIN m) \cup {k} |-> IF x = k THEN v ELSE m[x]]
MapDelete(m, k) == [x \in (DOMAIN m) \ {k} |-> m[x]]
EmptyMap == [x \in {} |-> 0]

Driver(id, lat, lng, available, t) ==
    [ID |-> id, Lat |-> lat, Lng |-> lng, Available |-> available, UpdatedAt |-> t]

-----------------------------------------------------------------------------
(* DriverStore, backend/matching-service/main.go *)

RECURSIVE IndexOf(_, _, _)
IndexOf(ids, id, i) ==
    IF i > Len(ids) THEN 0
    ELSE IF ids[i] = id THEN i
    ELSE IndexOf(ids, id, i + 1)

RemoveAt(ids, i) == SubSeq(ids, 1, i - 1) \o SubSeq(ids, i + 1, Len(ids))

\* fault model for C17: the loop never finds the id
removeFromS2IndexNone(idx, cellID, driverID) == idx

\* fault model for C18: the bucket is left in the map when it becomes empty
removeFromS2IndexKeepEmpty(idx, cellID, driverID) ==
    IF cellID \in DOMAIN idx
    THEN LET ids == idx[cellID]
             i == IndexOf(ids, driverID, 1)
         IN  MapPut(idx, cellID, IF i = 0 THEN ids ELSE RemoveAt(ids, i))
    ELSE idx

removeFromS2Index(idx, cellID, driverID) ==
    IF cellID \in DOMAIN idx
    THEN LET ids == idx[cellID]
             i == IndexOf(ids, driverID, 1)
             cut == IF i = 0 THEN ids ELSE RemoveAt(ids, i)
         IN  IF Len(cut) = 0 THEN MapDelete(idx, cellID) ELSE MapPut(idx, cellID, cut)
    ELSE idx

\* AddDriver that forgets the old entry of the driver (fault model for C8)
AddDriverKeepOld(drv, idx, driver) == idx

\* the three phases of AddDriver, each a function of the store
AddDriverRemoveOld(drv, idx, driver) ==
    IF driver.ID \in DOMAIN drv
    THEN removeFromS2Index(idx, CellID(drv[driver.ID].Lat, drv[driver.ID].Lng), driver.ID)
    ELSE idx

AddDriverStore(drv, driver) == MapPut(drv, driver.ID, driver)

\* fault model for C23: the id is appended whatever driver.Available is
AddDriverIndexAlways(idx, driver) ==
    LET cellID == CellID(driver.Lat, driver.Lng)
        old == IF cellID \in DOMAIN idx THEN idx[cellID] ELSE <<>>
    IN  MapPut(idx, cellID, Append(old, driver.ID))

AddDriverIndex(idx, driver) ==
    IF driver.Available
    THEN LET cellID == CellID(driver.Lat, driver.Lng)
             old == IF cellID \in DOMAIN idx THEN idx[cellID] ELSE <<>>
         IN  MapPut(idx, cellID, Append(old, driver.ID))
    ELSE idx

\* the whole of AddDriver, run under ds.mu.Lock()
AddDriver(drv, idx, driver) ==
    [drivers |-> AddDriverStore(drv, driver),
     s2Index |-> AddDriverIndex(AddDriverRemoveOld(drv, idx, driver), driver)]

NoResult == [Found |-> FALSE, Panic |-> FALSE, Driver |-> Driver("", 0, 0, FALSE, 0), Dist |-> 0]

\* cellsToCheck: the rider's cell, then its four edge neighbours
CellsToCheck(lat, lng) == <<CellID(lat, lng)>> \o EdgeNeighbors(CellID(lat, lng))

RECURSIVE CandidateIDs(_, _, _)
CandidateIDs(idx, cells, i) ==
    IF i > Len(cells) THEN <<>>
    ELSE (IF cells[i] \in DOMAIN idx THEN idx[cells[i]] ELSE <<>>)
         \o CandidateIDs(idx, cells, i + 1)

\* the test without the radius (fault model for C2)
NearerAnyDistance(distance, minDistance, maxDistance) == distance < minDistance

\* the test that lets a candidate replace the current best
Nearer(distance, minDistance, maxDistance) ==
    distance < minDistance /\ distance <= maxDistance

\* the candidate is skipped when it is not available
Skipped(driver) == ~driver.Available

RECURSIVE ScanCandidates(_, _, _, _, _, _, _)
ScanCandidates(drv, ids, i, lat, lng, maxDistance, best) ==
    IF i > Len(ids) \/ best.Panic THEN best
    ELSE IF ids[i] \notin DOMAIN drv
         THEN [best EXCEPT !.Panic = TRUE]      \* nil pointer dereference
    ELSE LET driver == drv[ids[i]]
             distance == Distance(lat, lng, driver.Lat, driver.Lng)
             minDistance == IF best.Found THEN best.Dist ELSE MaxFloat64
         IN  IF Skipped(driver)
             THEN ScanCandidates(drv, ids, i + 1, lat, lng, maxDistance, best)
             ELSE IF Nearer(distance, minDistance, maxDistance)
             THEN ScanCandidates(drv, ids, i + 1, lat, lng, maxDistance,
                      [Found |-> TRUE, Panic |-> FALSE, Driver |-> driver, Dist |-> distance])
             ELSE ScanCandidates(drv, ids, i + 1, lat, lng, maxDistance, best)

\* (nearestDriver, minDistance); Found = FALSE is the (nil, 0) return
FindNearestDriver(drv, idx, lat, lng, maxDistance) ==
    ScanCandidates(drv, CandidateIDs(idx, CellsToCheck(lat, lng), 1), 1,
                   lat, lng, maxDistance, NoResult)

-----------------------------------------------------------------------------
(* SpatialIndex, unnamed/part_001 *)

UpdateDriver(sd, id, lat, lng, available, t) ==
    MapPut(sd, id, Driver(id, lat, lng, available, t))

\* the orders in which a range over a Go map may visit its keys
Orders(S) ==
    {o \in [1..Cardinality(S) -> S] : \A i, j \in 1..Cardinality(S) : o[i] = o[j] => i = j}

\* the test that lets a driver replace the current best in findMatch
Closer(dist, minDist) == dist < minDist

\* findMatch that passes over no driver (fault model for C5)
UnavailableNever(d) == FALSE

\* findMatch passes over a driver that is not available
Unavailable(d) == ~d.Available

RECURSIVE ScanDrivers(_, _, _, _, _, _)
ScanDrivers(sd, order, i, lat, lng, best) ==
    IF i > Len(order) THEN best
    ELSE LET d == sd[order[i]]
             dist == Distance(lat, lng, d.Lat, d.Lng)
         IN  IF Unavailable(d)
             THEN ScanDrivers(sd, order, i + 1, lat, lng, best)
             ELSE IF Closer(dist, best.Dist)
             THEN ScanDrivers(sd, order, i + 1, lat, lng,
                      [Found |-> TRUE, Panic |-> FALSE, Driver |-> d, Dist |-> dist])
             ELSE ScanDrivers(sd, order, i + 1, lat, lng, best)

\* (bestDriver, minDist); with no driver found it returns (nil, radiusKm)
findMatch(sd, order, lat, lng, radius) ==
    ScanDrivers(sd, order, 1, lat, lng, [NoResult EXCEPT !.Dist = radius])

-----------------------------------------------------------------------------
(* HTTP handlers *)

MatchRequest(method, riderID, sessionID, lat, lng) ==
    [Method |-> method, RiderID |-> riderID, SessionID |-> sessionID, Lat |-> lat, Lng |-> lng]

MatchResponse(status, success, driverID, driverLat, driverLng, distance, message) ==
    [Status |-> status, Success |-> success, DriverID |-> driverID,
     DriverLat |-> driverLat, DriverLng |-> driverLng, DistanceKM |-> distance,
     Message |-> message]

HttpError(status, message) == MatchResponse(status, FALSE, "", 0, 0, 0, message)

NoResponse == HttpError(0, "")
NoRequest == MatchRequest("", "", "", 0, 0)

ValidCoordinates(lat, lng) ==
    ~(lat < -(MaxLatDeg * GridPerDegree) \/ lat > MaxLatDeg * GridPerDegree
      \/ lng < -(MaxLngDeg * GridPerDegree) \/ lng > MaxLngDeg * GridPerDegree)

\* one line of the audit stream, without its timestamp
AuditRecord(kind, riderID, driverID, sessionID, distance, success) ==
    [Kind |-> kind, RiderID |-> riderID, DriverID |-> driverID, SessionID |-> sessionID,
     DistanceKM |-> distance, Success |-> success]

LogMatchRequest(riderID, sessionID) ==
    AuditRecord("MATCH_REQUEST", riderID, "", sessionID, 0, FALSE)

LogMatchResult(riderID, driverID, sessionID, distance, success) ==
    AuditRecord("MATCH_RESULT", riderID, driverID, sessionID, distance, success)

\* what matchHandler builds from the result of FindNearestDriver
MatchOutcome(found) ==
    IF ~found.Found
    THEN MatchResponse(200, FALSE, "", 0, 0, 0, "No available drivers found nearby")
    ELSE MatchResponse(200, TRUE, found.Driver.ID, found.Driver.Lat, found.Driver.Lng,
                       found.Dist, "Match found")

\* matching-service/main.go, matchHandler
matchHandlerResponse(drv, idx, req) ==
    IF req.Method # "POST" THEN HttpError(405, "Method not allowed")
    ELSE IF req.RiderID = "" \/ req.SessionID = ""
    THEN HttpError(400, "rider_id and session_id are required")
    ELSE IF ~ValidCoordinates(req.Lat, req.Lng) THEN HttpError(400, "Invalid coordinates")
    ELSE MatchOutcome(FindNearestDriver(drv, idx, req.Lat, req.Lng, MatchRadiusKM * 1000))

\* fault model for C16: the outcome record is written before the result is known
MatchOutcomeAuditUnknown(req, found) ==
    LogMatchResult(req.RiderID, "", req.SessionID, 0, FALSE)

\* the outcome record either handler writes for the result of its query
MatchOutcomeAudit(req, found) ==
    IF ~found.Found
    THEN LogMatchResult(req.RiderID, "", req.SessionID, 0, FALSE)
    ELSE LogMatchResult(req.RiderID, found.Driver.ID, req.SessionID, found.Dist, TRUE)

\* matching-service/main.go, matchHandler: the audit records of one request
matchHandlerAudit(drv, idx, req) ==
    IF req.Method # "POST" \/ req.RiderID = "" \/ req.SessionID = ""
       \/ ~ValidCoordinates(req.Lat, req.Lng)
    THEN <<>>
    ELSE <<LogMatchRequest(req.RiderID, req.SessionID),
           MatchOutcomeAudit(req, FindNearestDriver(drv, idx, req.Lat, req.Lng,
                                                    MatchRadiusKM * 1000))>>

\* part_001, the /match handler
indexMatchResponse(sd, order, req) ==
    IF req.Method # "POST" THEN HttpError(405, "Method not allowed")
    ELSE LET found == findMatch(sd, order, req.Lat, req.Lng, FindMatchRadiusKm * 1000)
         IN  IF found.Found
             THEN MatchResponse(200, TRUE, found.Driver.ID, 0, 0, found.Dist,
                                "Driver found and dispatched")
             ELSE MatchResponse(200, FALSE, "", 0, 0, 0, "No drivers available within 5km")

\* part_001, the /match handler: the audit records of one request
indexMatchAudit(sd, order, req) ==
    IF req.Method # "POST" THEN <<>>
    ELSE <<LogMatchRequest(req.RiderID, req.SessionID),
           MatchOutcomeAudit(req, findMatch(sd, order, req.Lat, req.Lng,
                                            FindMatchRadiusKm * 1000))>>

\* riders stand on the two corners of the first cell
RiderPositions == {<<0, 0>>, <<1, 1>>}

\* the well-formed requests, and one request for each way of being malformed
MatchRequests ==
    {MatchRequest("POST", "rider-1", "session-1", p[1], p[2]) : p \in RiderPositions}
    \cup {MatchRequest("GET", "rider-1", "session-1", 0, 0),
          MatchRequest("POST", "", "session-1", 0, 0),
          MatchRequest("POST", "rider-1", "", 0, 0),
          MatchRequest("POST", "rider-1", "session-1", BadLat, 0)}

\* where a driver may report to be: the grid, and one latitude outside [-90, 90]
DriverPositions == Positions \cup {<<BadLat, 0>>}

DriverInputs(t) ==
    {Driver(id, p[1], p[2], a, t) : id \in DriverIDs, p \in DriverPositions, a \in BOOLEAN}

-----------------------------------------------------------------------------
(* EncryptionService, unnamed/part_003 *)

\* A byte string is a sequence over Bytes.  AES-256 in counter mode is a
\* keystream, a function of key, nonce and position, xor-ed onto the plaintext;
\* the GCM tag is TagSize bytes that depend on key, nonce and ciphertext.
Bytes == 0..MaxByte

RECURSIVE Xor(_, _)
Xor(a, b) ==
    IF a = 0 /\ b = 0 THEN 0
    ELSE (((a % 2) + (b % 2)) % 2) + 2 * Xor(a \div 2, b \div 2)

\* a digest of a byte string that depends on every byte and on its position
\* (Mix(bs, 1) is the digest of bs)
RECURSIVE Mix(_, _)
Mix(bs, i) ==
    IF i > Len(bs) THEN Len(bs) % (MaxByte + 1)
    ELSE (i * (bs[i] + 1) + Mix(bs, i + 1)) % (MaxByte + 1)

\* the keystream byte at position i, for the pad derived from key and nonce
Keystream(pad, i) == (pad + i) % (MaxByte + 1)

\* e is the service: its key and the key schedule aes.NewCipher derived from it
Pad(e, nonce) == (e.sched + Mix(nonce, 1)) % (MaxByte + 1)

\* the tag for the digest of key, nonce and ciphertext; its first byte differs
\* from the others, so a shifted tag is not a tag
Tag(e, nonce, c) ==
    LET digest == (e.sched + 2 * Mix(nonce, 1) + Mix(c, 1)) % (MaxByte + 1)
    IN  [j \in 1..TagSize |-> IF j = 1 THEN (digest + 1) % (MaxByte + 1) ELSE digest]

\* cipher.AEAD.Seal(dst, nonce, plaintext, nil): appends ciphertext and tag to dst
Seal(e, dst, nonce, p) ==
    LET pad == Pad(e, nonce)
        c == [i \in 1..Len(p) |-> Xor(p[i], Keystream(pad, i))]
    IN  dst \o c \o Tag(e, nonce, c)

CryptoResult(err, out) == [err |-> err, out |-> out]

\* cipher.AEAD.Open(nil, nonce, payload, nil): checks the tag, then decrypts
Open(e, nonce, payload) ==
    IF Len(payload) < TagSize THEN CryptoResult(TRUE, <<>>)
    ELSE LET c == SubSeq(payload, 1, Len(payload) - TagSize)
             tag == SubSeq(payload, Len(payload) - TagSize + 1, Len(payload))
             pad == Pad(e, nonce)
         IN  IF tag # Tag(e, nonce, c) THEN CryptoResult(TRUE, <<>>)
             ELSE CryptoResult(FALSE, [i \in 1..Len(c) |-> Xor(c[i], Keystream(pad, i))])

NilService == [nil |-> TRUE, key |-> <<>>, sched |-> 0]

\* the key sizes aes.NewCipher accepts
AESKeySizes == {AES128KeySize, AES192KeySize, KeySize}

\* fault model for C22: the length test is left to aes.NewCipher
KeyLengthAES(key) == Len(key) \in AESKeySizes

\* len(key) != 32 is refused
KeyLengthOK(key) == Len(key) = KeySize

NewEncryptionService(key) ==
    IF ~KeyLengthOK(key) THEN [err |-> TRUE, svc |-> NilService]
    ELSE IF Len(key) \notin AESKeySizes THEN [err |-> TRUE, svc |-> NilService]
    ELSE [err |-> FALSE, svc |-> [nil |-> FALSE, key |-> key, sched |-> Mix(key, 1)]]

\* fault model for C21: Seal is given a nil dst, the nonce is not stored
EncryptNoNonce(e, p, nonce) ==
    IF Len(p) = 0 THEN CryptoResult(TRUE, <<>>)
    ELSE CryptoResult(FALSE, Seal(e, <<>>, nonce, p))

\* Encrypt; nonce is what rand.Reader delivered
Encrypt(e, p, nonce) ==
    IF Len(p) = 0 THEN CryptoResult(TRUE, <<>>)
    ELSE CryptoResult(FALSE, Seal(e, nonce, nonce, p))

Decrypt(e, c) ==
    IF Len(c) < NonceSize + TagSize THEN CryptoResult(TRUE, <<>>)
    ELSE Open(e, SubSeq(c, 1, NonceSize), SubSeq(c, NonceSize + 1, Len(c)))

\* a key of n bytes
KeyOf(n, b) == [i \in 1..n |-> (b + i) % (MaxByte + 1)]

KeyLengths ==
    {0, ShortKeyLen, AES128KeySize, AES192KeySize, KeySize - 1, KeySize, KeySize + 1}

Keys == {KeyOf(n, b) : n \in KeyLengths, b \in {0, 1}}

Plaintexts == UNION {[1..n -> Bytes] : n \in 0..MaxPlainLen}

\* two of the values rand.Reader may deliver
Nonces == {[i \in 1..NonceSize |-> (b * i) % (MaxByte + 1)] : b \in {0, 1}}

\* what a caller may hand to Decrypt: the stored ciphertext, the ciphertext with
\* its last byte cut off, with one payload byte changed, and without its payload
DecryptInputs(c) ==
    IF Len(c) = 0 THEN {c}
    ELSE {c, SubSeq(c, 1, Len(c) - 1), SubSeq(c, 1, NonceSize),
          [c EXCEPT ![Len(c)] = (@ + 1) % (MaxByte + 1)]}

CryptoCall(op, arg, res) == [op |-> op, arg |-> arg, err |-> res.err, out |-> res.out]

NoCall == CryptoCall("", <<>>, CryptoResult(FALSE, <<>>))

-----------------------------------------------------------------------------
(* ride service, unnamed/part_002 *)

RideRequested == "REQUESTED"
RideMatched == "MATCHED"
RideStarted == "STARTED"
RideCompleted == "COMPLETED"

\* a nil *time.Time
NilTime == -1

\* the goroutines net/http serves requests on
Goroutines == {"g1", "g2"}

\* the ids uuid.New() hands out, and the ids a request path may name
RideIDs == {"ride-1"}
RidePaths == RideIDs \cup {"ride-404"}
LogIDs == {"rtb-1"}
LogPaths == LogIDs \cup {"rtb-404"}

\* the rider ids, pickup coordinates and driver ids of request bodies
RiderIDs == {"", "rider-1"}
PickupLats == {0, 52}
RideDriverIDs == {"", "driver-001", "driver-002"}

\* the readings of time.Now() the model follows
MaxRideClock == 6

Ride(id, riderID, lat, lon, t) ==
    [ID |-> id, RiderID |-> riderID, DriverID |-> "", Status |-> RideRequested,
     PickupLat |-> lat, PickupLon |-> lon, DropoffLat |-> 0, DropoffLon |-> 0,
     RequestedAt |-> t, MatchedAt |-> NilTime, StartedAt |-> NilTime,
     CompletedAt |-> NilTime, ReturnToBase |-> FALSE]

ReturnToBaseLog(id, rideID, driverID, t, lat, lon) ==
    [ID |-> id, RideID |-> rideID, DriverID |-> driverID, ReturnStartedAt |-> t,
     ReturnEndedAt |-> NilTime, BaseLat |-> lat, BaseLon |-> lon, Compliance |-> TRUE]

\* a request in flight: the handler, its path and body parameters, the time.Now()
\* it took, the log pointers it collected, and where the goroutine stands
RideRequest(op, id, driverID, rtb, t, ids, pc) ==
    [op |-> op, id |-> id, driverID |-> driverID, rtb |-> rtb, t |-> t, ids |-> ids,
     pc |-> pc]

NoRideRequest == RideRequest("", "", "", FALSE, NilTime, {}, "idle")

\* a response: who asked what, the status code and the encoded body
RideResponse(g, req, status, body) ==
    [g |-> g, op |-> req.op, id |-> req.id, driverID |-> req.driverID,
     status |-> status, body |-> body]

NoBody == [ID |-> ""]

NoRideResponse == RideResponse("", NoRideRequest, 0, NoBody)

\* fault model for C26: the handler does not take rideStore.mu
RideLockFreeAlways(m) == TRUE

\* rideStore.mu.Lock() and RLock() return when no writer holds the mutex
RideLockFree(m) == m = ""

\* fault model for C24: the status of the ride is not tested
MayMatchAny(ride) == TRUE

MayMatch(ride) == ride.Status = RideRequested

\* fault model for C25: the status of the ride is not tested
MayStartAny(ride) == TRUE

MayStart(ride) == ride.Status = RideMatched

MayComplete(ride) == ride.Status = RideStarted

\* fault model for C28: the end time of the log is not tested
MayEndAlways(rtbLog) == TRUE

MayEnd(rtbLog) == rtbLog.ReturnEndedAt = NilTime

\* the first field a transition assigns under the lock
FirstWrite(ride, req) ==
    IF req.op = "match" THEN [ride EXCEPT !.DriverID = req.driverID]
    ELSE IF req.op = "start" THEN [ride EXCEPT !.Status = RideStarted]
    ELSE [ride EXCEPT !.Status = RideCompleted]

\* the assignments that follow, up to Unlock
RestWrite(ride, req) ==
    IF req.op = "match" THEN [ride EXCEPT !.Status = RideMatched, !.MatchedAt = req.t]
    ELSE IF req.op = "start" THEN [ride EXCEPT !.StartedAt = req.t]
    ELSE [ride EXCEPT !.CompletedAt = req.t, !.DropoffLat = DropoffLat,
                      !.DropoffLon = DropoffLon, !.ReturnToBase = req.rtb]

\* json.NewEncoder(w).Encode(...) of what the handler's pointer refers to now
EncodedBody(rs, ls, req) ==
    IF req.op \in {"rtb_create", "rtb_end"} THEN ls[req.id]
    ELSE IF req.op = "rtb_list" THEN [ID |-> "", Logs |-> {ls[i] : i \in req.ids}]
    ELSE rs[req.id]

\* the status code of a response with a body
EncodedStatus(req) == IF req.op \in {"create", "rtb_create"} THEN 201 ELSE 200

-----------------------------------------------------------------------------
(* pricing service, backend/safety-verification-service/main.go.  Amounts are
   counted in 1/100000 EUR, distances in tenths of a km, durations in tenths
   of a minute and multipliers in hundredths, so that every product and
   quotient of calculatePrice is exact *)

\* a float64: a number, or NaN
Num(v) == [nan |-> FALSE, v |-> v]
NaN == [nan |-> TRUE, v |-> 0]

\* the comparisons of float64: false as soon as one side is NaN
FLess(a, b) == ~a.nan /\ ~b.nan /\ a.v < b.v
FLeq(a, b) == ~a.nan /\ ~b.nan /\ a.v <= b.v
FGreater(a, b) == ~a.nan /\ ~b.nan /\ a.v > b.v

FAdd(a, b) == IF a.nan \/ b.nan THEN NaN ELSE Num(a.v + b.v)

\* a * num / den, for the products whose quotient is exact; the quotient is
\* taken first so that the product stays within the integers of the checker
FScale(a, num, den) ==
    IF a.nan THEN NaN ELSE Num((a.v \div den) * num + ((a.v % den) * num) \div den)

\* math.Round(n / d): to the nearest integer, halves away from zero
RoundDiv(n, d) ==
    IF n >= 0 THEN (2 * n + d) \div (2 * d) ELSE 0 - (((2 * (0 - n)) + d) \div (2 * d))

\* math.Round(x*100) / 100
RoundCents(x) == IF x.nan THEN NaN ELSE Num(RoundDiv(x.v, CentScale) * CentScale)

PriceRequest(distance, duration, demand, supply) ==
    [DistanceKm |-> distance, DurationMin |-> duration, Demand |-> demand, Supply |-> supply]

PriceResponse(base, distancePrice, timePrice, surge, subtotal, final, note) ==
    [BasePrice |-> base, DistancePrice |-> distancePrice, TimePrice |-> timePrice,
     SurgeMultiplier |-> surge, Subtotal |-> subtotal, FinalPrice |-> final,
     Currency |-> "EUR", ComplianceNote |-> note]

\* a query parameter: the text parses to a value, or it does not
Parsed(x) == [ok |-> TRUE, x |-> x]
Unparsable == [ok |-> FALSE, x |-> Num(0)]
Missing == [ok |-> FALSE, x |-> 0]

PriceQuery(method, distance, duration, demand, supply) ==
    [method |-> method, distance_km |-> distance, duration_min |-> duration,
     demand |-> demand, supply |-> supply]

NoPriceRequest == PriceQuery("", Unparsable, Unparsable, Missing, Missing)

\* the result of parsePriceRequest and of validatePriceRequest: an error or nil
PriceResult(err, req) == [err |-> err, req |-> req]

parsePriceRequest(q) ==
    IF ~q.distance_km.ok
    THEN PriceResult("invalid distance_km parameter", PriceRequest(Num(0), Num(0), 0, 0))
    ELSE IF ~q.duration_min.ok
    THEN PriceResult("invalid duration_min parameter", PriceRequest(Num(0), Num(0), 0, 0))
    ELSE PriceResult("", PriceRequest(q.distance_km.x, q.duration_min.x,
                                      IF q.demand.ok THEN q.demand.x ELSE DefaultDemand,
                                      IF q.supply.ok THEN q.supply.x ELSE DefaultSupply))

validatePriceRequest(req) ==
    IF FLeq(req.DistanceKm, Num(0)) THEN "distance_km must be greater than 0"
    ELSE IF FGreater(req.DistanceKm, Num(MaxDistanceKm))
    THEN "distance_km exceeds maximum allowed (500km)"
    ELSE IF FLeq(req.DurationMin, Num(0)) THEN "duration_min must be greater than 0"
    ELSE IF FGreater(req.DurationMin, Num(MaxDurationMin))
    THEN "duration_min exceeds maximum allowed (600min)"
    ELSE IF req.Demand < 0 THEN "demand cannot be negative"
    ELSE IF req.Supply < 0 THEN "supply cannot be negative"
    ELSE ""

\* fault model for C29: the linear formula for every ratio above 1, uncapped
calculateSurgeMultiplierLinear(demand, supply) ==
    IF supply = 0 THEN MaxSurgeMultiplier
    ELSE IF demand = 0 THEN SurgeScale
    ELSE LET num == IF supply > 0 THEN demand ELSE 0 - demand
             den == IF supply > 0 THEN supply ELSE 0 - supply
         IN  IF num <= den THEN SurgeScale
             ELSE RoundDiv(SurgeScale * 2 * den + (num - den) * (MaxSurgeMultiplier - SurgeScale),
                           2 * den)

\* the multiplier in hundredths; the ratio demand/supply is num/den with den > 0
calculateSurgeMultiplier(demand, supply) ==
    IF supply = 0 THEN MaxSurgeMultiplier
    ELSE IF demand = 0 THEN SurgeScale
    ELSE LET num == IF supply > 0 THEN demand ELSE 0 - demand
             den == IF supply > 0 THEN supply ELSE 0 - supply
             \* 1.0 + ((ratio - 1.0) / 2.0) * (MaxSurgeMultiplier - 1.0), over 2 * den
             linear == SurgeScale * 2 * den + (num - den) * (MaxSurgeMultiplier - SurgeScale)
             multiplier == IF num <= den THEN SurgeScale * 2 * den
                           ELSE IF num >= FullSurgeRatio * den
                           THEN MaxSurgeMultiplier * 2 * den
                           ELSE linear
             capped == IF multiplier < MaxSurgeMultiplier * 2 * den
                       THEN multiplier ELSE MaxSurgeMultiplier * 2 * den
         IN  RoundDiv(capped, 2 * den)

\* (finalPrice - basePrice) / DistanceKm < MinPricePerKmEUR && DistanceKm > 0
BelowMinPerKm(final, base, distance) ==
    /\ ~final.nan /\ ~distance.nan
    /\ distance.v > 0
    /\ final.v - base.v < (MinPricePerKmEUR * distance.v) \div DistanceScale

calculatePrice(req) ==
    LET basePrice == Num(BaseRateEUR)
        distancePrice == FScale(req.DistanceKm, PricePerKmEUR, DistanceScale)
        timePrice == FScale(req.DurationMin, PricePerMinuteEUR, DurationScale)
        surgeMultiplier == calculateSurgeMultiplier(req.Demand, req.Supply)
        subtotal == FAdd(FAdd(basePrice, distancePrice), timePrice)
        surged == FScale(subtotal, surgeMultiplier, SurgeScale)
        floored == IF FLess(surged, Num(MinimumFareEUR)) THEN Num(MinimumFareEUR) ELSE surged
        note1 == IF FLess(surged, Num(MinimumFareEUR))
                 THEN "Price adjusted to minimum fare per PBefG 51" ELSE ""
        adjustedPrice == FAdd(FAdd(basePrice,
                                   FScale(req.DistanceKm, MinPricePerKmEUR, DistanceScale)),
                              timePrice)
        adjust == BelowMinPerKm(floored, basePrice, req.DistanceKm)
                  /\ FGreater(adjustedPrice, floored)
        finalPrice == IF adjust THEN adjustedPrice ELSE floored
        note == IF adjust /\ note1 = ""
                THEN "Price adjusted to minimum per-km rate per PBefG 39" ELSE note1
    IN  PriceResponse(basePrice, RoundCents(distancePrice), RoundCents(timePrice),
                      surgeMultiplier, RoundCents(subtotal), RoundCents(finalPrice), note)

NoPrice == PriceResponse(Num(0), Num(0), Num(0), 0, Num(0), Num(0), "")

\* json.NewEncoder(w).Encode(resp) fails on a NaN field and then writes nothing
Encodable(resp) ==
    ~(resp.DistancePrice.nan \/ resp.TimePrice.nan \/ resp.Subtotal.nan
      \/ resp.FinalPrice.nan)

\* what handlePrice wrote: status, error code, the price it computed, and
\* whether the body went out
HTTPPriceResponse(status, code, price, sent) ==
    [status |-> status, code |-> code, price |-> price, sent |-> sent]

NoPriceResponse == HTTPPriceResponse(0, "", NoPrice, FALSE)

\* the inputs of the price endpoint
DistanceKms == {Num(x) : x \in {0 - 10, 0, 1, 5, 8, 9, 10, 25, MaxDistanceKm - 1,
                                MaxDistanceKm, MaxDistanceKm + 1}} \cup {NaN}
DurationMins == {Num(x) : x \in {0 - 10, 0, 1, 10, MaxDurationMin, MaxDurationMin + 1}}
                    \cup {NaN}
Demands == (0 - 1)..MaxDemand
Supplies == (0 - 1)..MaxSupply
PriceQueries ==
    {PriceQuery(method, distance, duration, demand, supply) :
        method \in {"GET", "POST"},
        distance \in {Unparsable} \cup {Parsed(x) : x \in DistanceKms},
        duration \in {Unparsable} \cup {Parsed(x) : x \in DurationMins},
        demand \in {Missing} \cup {Parsed(x) : x \in Demands},
        supply \in {Missing} \cup {Parsed(x) : x \in Supplies}}

-----------------------------------------------------------------------------
(* State machine *)

NoDriver == Driver("", 0, 0, FALSE, 0)
FreeMutex == [writer |-> FALSE, readers |-> 0]

\* every store as its constructor leaves it, no request served yet
Idle ==
    /\ drivers = EmptyMap
    /\ s2Index = EmptyMap
    /\ siDrivers = EmptyMap
    /\ now = 0
    /\ request = NoRequest
    /\ response = NoResponse
    /\ audit = <<>>
    /\ mu = FreeMutex
    /\ wpc = "idle"
    /\ wreq = NoDriver
    /\ rpc = "idle"
    /\ svc = NilService
    /\ plaintext = <<>>
    /\ ciphertext = <<>>
    /\ cryptoCall = NoCall
    /\ rides = EmptyMap
    /\ logs = EmptyMap
    /\ rideMu = ""
    /\ reqs = [g \in Goroutines |-> NoRideRequest]
    /\ rideResp = NoRideResponse
    /\ priceReq = NoPriceRequest
    /\ priceResp = NoPriceResponse

Init ==
    /\ service \in {"store", "index"}
    /\ Idle

\* a driver update reaches DriverStore.AddDriver; the caller stamps it time.Now()
AddDriverCall(driver) ==
    /\ service = "store"
    /\ drivers' = AddDriver(drivers, s2Index, driver).drivers
    /\ s2Index' = AddDriver(drivers, s2Index, driver).s2Index
    /\ request' = NoRequest
    /\ response' = NoResponse
    /\ audit' = <<>>
    /\ UNCHANGED otherVars
    /\ UNCHANGED <<service, siDrivers, now, mu, wpc, wreq, rpc>>

\* POST /api/v1/match
matchHandler(req) ==
    /\ service = "store"
    /\ request' = req
    /\ response' = matchHandlerResponse(drivers, s2Index, req)
    /\ audit' = matchHandlerAudit(drivers, s2Index, req)
    /\ UNCHANGED otherVars
    /\ UNCHANGED <<service, drivers, s2Index, siDrivers, now, mu, wpc, wreq, rpc>>

\* SpatialIndex.UpdateDriver
UpdateDriverCall(id, lat, lng, available) ==
    /\ service = "index"
    /\ siDrivers' = UpdateDriver(siDrivers, id, lat, lng, available, now)
    /\ request' = NoRequest
    /\ response' = NoResponse
    /\ audit' = <<>>
    /\ UNCHANGED otherVars
    /\ UNCHANGED <<service, drivers, s2Index, now, mu, wpc, wreq, rpc>>

\* POST /match of part_001; the map is ranged over in any order
indexMatchHandler(req, order) ==
    /\ service = "index"
    /\ request' = req
    /\ response' = indexMatchResponse(siDrivers, order, req)
    /\ audit' = indexMatchAudit(siDrivers, order, req)
    /\ UNCHANGED otherVars
    /\ UNCHANGED <<service, drivers, s2Index, siDrivers, now, mu, wpc, wreq, rpc>>

Next ==
    \/ \E driver \in DriverInputs(now) : AddDriverCall(driver)
    \/ \E req \in MatchRequests : matchHandler(req)
    \/ \E id \in DriverIDs, p \in DriverPositions, a \in BOOLEAN :
           UpdateDriverCall(id, p[1], p[2], a)
    \/ \E req \in MatchRequests : \E order \in Orders(DOMAIN siDrivers) :
           indexMatchHandler(req, order)

\* the requests of either binary, at one instant
Spec == Init /\ [][Next]_vars

\* time passes
Tick ==
    /\ now + TickSeconds <= MaxTime
    /\ now' = now + TickSeconds
    /\ request' = NoRequest
    /\ response' = NoResponse
    /\ audit' = <<>>
    /\ UNCHANGED otherVars
    /\ UNCHANGED <<service, drivers, s2Index, siDrivers, mu, wpc, wreq, rpc>>

NextTime == Next \/ Tick

\* the same requests while the clock runs
SpecTime == Init /\ [][NextTime]_vars

-----------------------------------------------------------------------------
(* DriverStore under its RWMutex, one step per phase of AddDriver *)

\* ds.mu.Lock() returns when no goroutine holds the mutex
WriterMayEnter(m) == ~m.writer /\ m.readers = 0

\* fault model for C19: FindNearestDriver reads without taking the read lock
ReaderMayEnterAlways(m) == TRUE

\* ds.mu.RLock() returns when no writer holds the mutex
ReaderMayEnter(m) == ~m.writer

\* fault model for C20: AddDriver returns without releasing the mutex
UnlockedNever(m) == m

\* defer ds.mu.Unlock()
Unlocked(m) == [m EXCEPT !.writer = FALSE]

\* the goroutines of other match requests that are inside FindNearestDriver
Peers == mu.readers - (IF rpc = "scan" THEN 1 ELSE 0)

AddDriverLock(driver) ==
    /\ wpc = "idle"
    /\ WriterMayEnter(mu)
    /\ mu' = [mu EXCEPT !.writer = TRUE]
    /\ wreq' = driver
    /\ wpc' = "remove"
    /\ request' = IF rpc = "idle" THEN NoRequest ELSE request
    /\ response' = IF rpc = "idle" THEN NoResponse ELSE response
    /\ audit' = IF rpc = "idle" THEN <<>> ELSE audit
    /\ UNCHANGED otherVars
    /\ UNCHANGED <<service, drivers, s2Index, siDrivers, now, rpc>>

AddDriverStepRemove ==
    /\ wpc = "remove"
    /\ s2Index' = AddDriverRemoveOld(drivers, s2Index, wreq)
    /\ wpc' = "store"
    /\ UNCHANGED otherVars
    /\ UNCHANGED <<service, drivers, siDrivers, now, request, response, audit, mu, wreq, rpc>>

AddDriverStepStore ==
    /\ wpc = "store"
    /\ drivers' = AddDriverStore(drivers, wreq)
    /\ wpc' = "index"
    /\ UNCHANGED otherVars
    /\ UNCHANGED <<service, s2Index, siDrivers, now, request, response, audit, mu, wreq, rpc>>

AddDriverStepIndex ==
    /\ wpc = "index"
    /\ s2Index' = AddDriverIndex(s2Index, wreq)
    /\ wpc' = "unlock"
    /\ UNCHANGED otherVars
    /\ UNCHANGED <<service, drivers, siDrivers, now, request, response, audit, mu, wreq, rpc>>

AddDriverUnlock ==
    /\ wpc = "unlock"
    /\ mu' = Unlocked(mu)
    /\ wreq' = NoDriver
    /\ wpc' = "idle"
    /\ UNCHANGED otherVars
    /\ UNCHANGED <<service, drivers, s2Index, siDrivers, now, request, response, audit, rpc>>

\* matchHandler up to its call of FindNearestDriver, for a request that passes validation
matchHandlerEnter(req) ==
    /\ rpc = "idle"
    /\ rpc' = "rlock"
    /\ request' = req
    /\ response' = NoResponse
    /\ audit' = <<LogMatchRequest(req.RiderID, req.SessionID)>>
    /\ UNCHANGED otherVars
    /\ UNCHANGED <<service, drivers, s2Index, siDrivers, now, mu, wpc, wreq>>

\* ds.mu.RLock() of the request that is followed
FindNearestRLock ==
    /\ rpc = "rlock"
    /\ ReaderMayEnter(mu)
    /\ mu' = [mu EXCEPT !.readers = @ + 1]
    /\ rpc' = "scan"
    /\ UNCHANGED otherVars
    /\ UNCHANGED <<service, drivers, s2Index, siDrivers, now, request, response, audit, wpc, wreq>>

\* the scan, the deferred RUnlock and the handler's answer
FindNearestScan ==
    /\ rpc = "scan"
    /\ response' = matchHandlerResponse(drivers, s2Index, request)
    /\ audit' = matchHandlerAudit(drivers, s2Index, request)
    /\ mu' = [mu EXCEPT !.readers = @ - 1]
    /\ rpc' = "idle"
    /\ UNCHANGED otherVars
    /\ UNCHANGED <<service, drivers, s2Index, siDrivers, now, request, wpc, wreq>>

\* the FindNearestDriver of another request takes the read lock
PeerRLock ==
    /\ Peers < MaxPeers
    /\ ReaderMayEnter(mu)
    /\ mu' = [mu EXCEPT !.readers = @ + 1]
    /\ UNCHANGED otherVars
    /\ UNCHANGED <<service, drivers, s2Index, siDrivers, now, request, response, audit, wpc, wreq,
                   rpc>>

\* and releases it when its scan is over
PeerRUnlock ==
    /\ Peers > 0
    /\ mu' = [mu EXCEPT !.readers = @ - 1]
    /\ UNCHANGED otherVars
    /\ UNCHANGED <<service, drivers, s2Index, siDrivers, now, request, response, audit, wpc, wreq,
                   rpc>>

InitLock == Init /\ service = "store"

NextLock ==
    \/ \E driver \in DriverInputs(now) : AddDriverLock(driver)
    \/ AddDriverStepRemove
    \/ AddDriverStepStore
    \/ AddDriverStepIndex
    \/ AddDriverUnlock
    \/ \E p \in RiderPositions :
           matchHandlerEnter(MatchRequest("POST", "rider-1", "session-1", p[1], p[2]))
    \/ FindNearestRLock
    \/ FindNearestScan
    \/ PeerRLock
    \/ PeerRUnlock

SpecLock == InitLock /\ [][NextLock]_vars

\* the scheduler runs every goroutine that can run; a goroutine blocked in RLock is
\* woken when the writer unlocks, before any later writer is let in
SpecLockFair ==
    /\ SpecLock
    /\ WF_vars(AddDriverStepRemove)
    /\ WF_vars(AddDriverStepStore)
    /\ WF_vars(AddDriverStepIndex)
    /\ WF_vars(AddDriverUnlock)
    /\ SF_vars(FindNearestRLock)
    /\ WF_vars(FindNearestScan)

-----------------------------------------------------------------------------
(* EncryptionService: the calls of one caller *)

NewEncryptionServiceCall(key) ==
    /\ service = "safety"
    /\ svc' = NewEncryptionService(key).svc
    /\ plaintext' = <<>>
    /\ ciphertext' = <<>>
    /\ cryptoCall' = CryptoCall("new", key,
                                CryptoResult(NewEncryptionService(key).err, <<>>))
    /\ UNCHANGED <<service, drivers, s2Index, siDrivers, now, request, response, audit, mu, wpc,
                   wreq, rpc, rideVars, priceVars>>

EncryptCall(p, nonce) ==
    /\ service = "safety"
    /\ ~svc.nil
    /\ plaintext' = p
    /\ LET res == Encrypt(svc, p, nonce)
       IN  ciphertext' = res.out /\ cryptoCall' = CryptoCall("encrypt", p, res)
    /\ UNCHANGED <<service, drivers, s2Index, siDrivers, now, request, response, audit, mu, wpc,
                   wreq, rpc, svc, rideVars, priceVars>>

DecryptCall(c) ==
    /\ service = "safety"
    /\ ~svc.nil
    /\ cryptoCall' = CryptoCall("decrypt", c, Decrypt(svc, c))
    /\ UNCHANGED <<service, drivers, s2Index, siDrivers, now, request, response, audit, mu, wpc,
                   wreq, rpc, svc, plaintext, ciphertext, rideVars, priceVars>>

InitSafety == service = "safety" /\ Idle

NextSafety ==
    \/ \E key \in Keys : NewEncryptionServiceCall(key)
    \/ \E p \in Plaintexts, nonce \in Nonces : EncryptCall(p, nonce)
    \/ \E c \in DecryptInputs(ciphertext) : DecryptCall(c)

SpecSafety == InitSafety /\ [][NextSafety]_vars

-----------------------------------------------------------------------------
(* State machine of the ride service: a handler's locked section, the rest of
   its assignments up to Unlock, and the encoding of its response are steps of
   the goroutine serving the request *)

notRideVars == <<service, drivers, s2Index, siDrivers, request, response, audit, mu, wpc,
                 wreq, rpc, safetyVars, priceVars>>

\* http.Error(w, ..., status): the request is over
RideError(g, req, status) ==
    /\ rideResp' = RideResponse(g, req, status, NoBody)
    /\ UNCHANGED <<rides, logs, rideMu, reqs, now>>

\* the handler goes on to the step pc with the time.Now() it took
RideProceed(g, req) ==
    /\ reqs' = [reqs EXCEPT ![g] = req]
    /\ rideResp' = NoRideResponse
    /\ now' = now + 1

createRideHandler(g, riderID, lat, lon) ==
    /\ service = "rides"
    /\ reqs[g].pc = "idle"
    /\ LET bad == RideRequest("create", "", "", FALSE, NilTime, {}, "idle")
       IN  IF riderID = "" \/ lat = 0 \/ lon = 0
           THEN RideError(g, bad, 400)
           ELSE \E id \in RideIDs \ DOMAIN rides :
                   /\ RideLockFree(rideMu)
                   /\ now < MaxRideClock
                   /\ rides' = MapPut(rides, id, Ride(id, riderID, lat, lon, now))
                   /\ RideProceed(g, RideRequest("create", id, "", FALSE, now, {}, "encode"))
                   /\ UNCHANGED <<logs, rideMu>>
    /\ UNCHANGED notRideVars

getRideHandler(g, id) ==
    /\ service = "rides"
    /\ reqs[g].pc = "idle"
    /\ RideLockFree(rideMu)
    /\ LET req == RideRequest("get", id, "", FALSE, NilTime, {}, "encode")
       IN  IF id \notin DOMAIN rides
           THEN RideError(g, req, 404)
           ELSE /\ reqs' = [reqs EXCEPT ![g] = req]
                /\ rideResp' = NoRideResponse
                /\ UNCHANGED <<rides, logs, rideMu, now>>
    /\ UNCHANGED notRideVars

\* Lock, the lookup, the status test and the first assignment of a transition
RideTransition(g, req, allowed) ==
    /\ RideLockFree(rideMu)
    /\ IF req.id \notin DOMAIN rides
       THEN RideError(g, req, 404)
       ELSE IF ~allowed
       THEN RideError(g, req, 400)
       ELSE /\ now < MaxRideClock
            /\ rides' = [rides EXCEPT ![req.id] = FirstWrite(rides[req.id], req)]
            /\ rideMu' = g
            /\ RideProceed(g, req)
            /\ UNCHANGED logs

matchRideHandler(g, id, driverID) ==
    /\ service = "rides"
    /\ reqs[g].pc = "idle"
    /\ LET req == RideRequest("match", id, driverID, FALSE, now, {}, "write")
       IN  IF driverID = ""
           THEN RideError(g, req, 400)
           ELSE RideTransition(g, req, id \in DOMAIN rides /\ MayMatch(rides[id]))
    /\ UNCHANGED notRideVars

startRideHandler(g, id) ==
    /\ service = "rides"
    /\ reqs[g].pc = "idle"
    /\ RideTransition(g, RideRequest("start", id, "", FALSE, now, {}, "write"),
                      id \in DOMAIN rides /\ MayStart(rides[id]))
    /\ UNCHANGED notRideVars

completeRideHandler(g, id, rtb) ==
    /\ service = "rides"
    /\ reqs[g].pc = "idle"
    /\ RideTransition(g, RideRequest("complete", id, "", rtb, now, {}, "write"),
                      id \in DOMAIN rides /\ MayComplete(rides[id]))
    /\ UNCHANGED notRideVars

\* the assignments after the first one, and Unlock
RideWriteRest(g) ==
    /\ service = "rides"
    /\ reqs[g].pc = "write"
    /\ rides' = [rides EXCEPT ![reqs[g].id] = RestWrite(rides[reqs[g].id], reqs[g])]
    /\ rideMu' = ""
    /\ reqs' = [reqs EXCEPT ![g].pc = "encode"]
    /\ rideResp' = NoRideResponse
    /\ UNCHANGED <<logs, now>>
    /\ UNCHANGED notRideVars

createReturnToBaseHandler(g, rideID, driverID) ==
    /\ service = "rides"
    /\ reqs[g].pc = "idle"
    /\ LET bad == RideRequest("rtb_create", "", driverID, FALSE, NilTime, {}, "idle")
       IN  IF rideID = "" \/ driverID = ""
           THEN RideError(g, bad, 400)
           ELSE \E id \in LogIDs \ DOMAIN logs :
                   /\ now < MaxRideClock
                   /\ logs' = MapPut(logs, id, ReturnToBaseLog(id, rideID, driverID, now,
                                                                BaseLat, BaseLon))
                   /\ RideProceed(g, RideRequest("rtb_create", id, driverID, FALSE, now, {},
                                                 "encode"))
                   /\ UNCHANGED <<rides, rideMu>>
    /\ UNCHANGED notRideVars

endReturnToBaseHandler(g, id) ==
    /\ service = "rides"
    /\ reqs[g].pc = "idle"
    /\ LET req == RideRequest("rtb_end", id, "", FALSE, now, {}, "encode")
       IN  IF id \notin DOMAIN logs
           THEN RideError(g, req, 404)
           ELSE IF ~MayEnd(logs[id])
           THEN RideError(g, req, 400)
           ELSE /\ now < MaxRideClock
                /\ logs' = [logs EXCEPT ![id].ReturnEndedAt = now]
                /\ RideProceed(g, req)
                /\ UNCHANGED <<rides, rideMu>>
    /\ UNCHANGED notRideVars

getReturnToBaseLogsHandler(g, driverID) ==
    /\ service = "rides"
    /\ reqs[g].pc = "idle"
    /\ reqs' = [reqs EXCEPT ![g] =
                   RideRequest("rtb_list", "", driverID, FALSE, NilTime,
                               {i \in DOMAIN logs : logs[i].DriverID = driverID}, "encode")]
    /\ rideResp' = NoRideResponse
    /\ UNCHANGED <<rides, logs, rideMu, now>>
    /\ UNCHANGED notRideVars

\* json.NewEncoder(w).Encode(...) after Unlock: it reads what the pointer refers
\* to at that moment, whoever wrote it
RideEncode(g) ==
    /\ service = "rides"
    /\ reqs[g].pc = "encode"
    /\ rideResp' = RideResponse(g, reqs[g], EncodedStatus(reqs[g]),
                                EncodedBody(rides, logs, reqs[g]))
    /\ reqs' = [reqs EXCEPT ![g] = NoRideRequest]
    /\ UNCHANGED <<rides, logs, rideMu, now>>
    /\ UNCHANGED notRideVars

InitRides == service = "rides" /\ Idle

NextRides ==
    \/ \E g \in Goroutines, riderID \in RiderIDs, lat \in PickupLats, lon \in PickupLats :
          createRideHandler(g, riderID, lat, lon)
    \/ \E g \in Goroutines, id \in RidePaths : getRideHandler(g, id)
    \/ \E g \in Goroutines, id \in RidePaths, driverID \in RideDriverIDs :
          matchRideHandler(g, id, driverID)
    \/ \E g \in Goroutines, id \in RidePaths : startRideHandler(g, id)
    \/ \E g \in Goroutines, id \in RidePaths, rtb \in BOOLEAN : completeRideHandler(g, id, rtb)
    \/ \E g \in Goroutines : RideWriteRest(g)
    \/ \E g \in Goroutines, rideID \in {""} \cup RideIDs, driverID \in RideDriverIDs :
          createReturnToBaseHandler(g, rideID, driverID)
    \/ \E g \in Goroutines, id \in LogPaths : endReturnToBaseHandler(g, id)
    \/ \E g \in Goroutines, driverID \in RideDriverIDs \ {""} :
          getReturnToBaseLogsHandler(g, driverID)
    \/ \E g \in Goroutines : RideEncode(g)

SpecRides == InitRides /\ [][NextRides]_vars

-----------------------------------------------------------------------------
(* State machine of the pricing service: the server hands a request to
   handlePrice, which answers it; the service keeps no state between requests *)

notPriceVars == <<service, drivers, s2Index, siDrivers, now, request, response, audit, mu,
                  wpc, wreq, rpc, safetyVars, rideVars>>

\* mux.HandleFunc("/price", handlePrice): a request arrives
ServePrice ==
    /\ service = "pricing"
    /\ priceReq = NoPriceRequest
    /\ priceReq' \in PriceQueries
    /\ UNCHANGED priceResp
    /\ UNCHANGED notPriceVars

handlePrice ==
    /\ service = "pricing"
    /\ priceReq # NoPriceRequest
    /\ priceResp = NoPriceResponse
    /\ LET parsed == parsePriceRequest(priceReq)
           invalid == validatePriceRequest(parsed.req)
           resp == calculatePrice(parsed.req)
       IN  priceResp' =
              IF priceReq.method # "GET"
              THEN HTTPPriceResponse(405, "METHOD_NOT_ALLOWED", NoPrice, TRUE)
              ELSE IF parsed.err # ""
              THEN HTTPPriceResponse(400, "INVALID_REQUEST", NoPrice, TRUE)
              ELSE IF invalid # ""
              THEN HTTPPriceResponse(400, "VALIDATION_ERROR", NoPrice, TRUE)
              ELSE HTTPPriceResponse(200, "", resp, Encodable(resp))
    /\ UNCHANGED priceReq
    /\ UNCHANGED notPriceVars

InitPrice == service = "pricing" /\ Idle

NextPrice ==
    \/ ServePrice
    \/ handlePrice

SpecPrice == InitPrice /\ [][NextPrice]_vars

-----------------------------------------------------------------------------
(* Vocabulary of the properties *)

\* the registry of the running binary
Registry == IF service = "store" THEN drivers ELSE siDrivers

\* the radius its match handler asks for, in metres
HandlerRadius ==
    IF service = "store" THEN MatchRadiusKM * 1000 ELSE FindMatchRadiusKm * 1000

\* every result queryNearest may return for a position and a radius
QueryResults(p, r) ==
    IF service = "store"
    THEN {FindNearestDriver(drivers, s2Index, p[1], p[2], r)}
    ELSE {findMatch(siDrivers, o, p[1], p[2], r) : o \in Orders(DOMAIN siDrivers)}

Stale(d) == now - d.UpdatedAt > StaleThreshold
Eligible(d) == d.Available /\ ~Stale(d)

DistanceTo(p, d) == Distance(p[1], p[2], d.Lat, d.Lng)

\* how many times an id occurs in the buckets of the index
Occurrences(idx, id) ==
    Cardinality({<<c, i>> \in (DOMAIN idx) \X (1..Cardinality(DriverIDs) + 1) :
                    i <= Len(idx[c]) /\ idx[c][i] = id})

InIndex(idx, id) == \E c \in DOMAIN idx : \E i \in 1..Len(idx[c]) : idx[c][i] = id

InBucket(idx, c, id) == c \in DOMAIN idx /\ \E i \in 1..Len(idx[c]) : idx[c][i] = id

\* this step answered a well-formed match request with a driver
Matched == response.Status = 200 /\ response.Success

RequestPosition == <<request.Lat, request.Lng>>

-----------------------------------------------------------------------------
(* Properties *)

\* C1: the same driver is never the successful match of two Match requests
\* unless it was released in between.  A step that is not a match clears
\* response, so two successes in successive states are two Match requests
\* with nothing, and so no release, between them.
C1_NoDoubleDispatch ==
    [][(Matched /\ Matched') => response'.DriverID # response.DriverID]_vars

\* C2: whenever queryNearest returns a driver, the driver is within the radius
\* of the query position and the distance returned with it is its distance
\* to that position; the same holds of the answer of the match handlers.
C2_WithinRadius ==
    /\ \A p \in Positions, r \in QueryRadii : \A res \in QueryResults(p, r) :
          res.Found =>
             /\ res.Driver.ID \in DOMAIN Registry
             /\ res.Driver = Registry[res.Driver.ID]
             /\ res.Dist = DistanceTo(p, Registry[res.Driver.ID])
             /\ res.Dist <= r
    /\ Matched =>
          /\ response.DriverID \in DOMAIN Registry
          /\ response.DistanceKM = DistanceTo(RequestPosition, Registry[response.DriverID])
          /\ response.DistanceKM <= HandlerRadius

\* C2 witness: a match was answered, and for some query an available driver
\* beyond the radius was passed over in favour of one inside it.
C2_Witness ==
    /\ Matched
    /\ \E p \in Positions, r \in QueryRadii : \E res \in QueryResults(p, r) :
          /\ res.Found
          /\ \E id \in DOMAIN Registry :
                Registry[id].Available /\ DistanceTo(p, Registry[id]) > r

\* C3: the driver queryNearest returns is the nearest eligible driver within
\* the radius: no eligible driver of the registry within the radius is
\* strictly closer to the query position.
C3_GlobalMinimum ==
    \A p \in Positions, r \in QueryRadii : \A res \in QueryResults(p, r) :
       res.Found =>
          \A id \in DOMAIN Registry :
             (Eligible(Registry[id]) /\ DistanceTo(p, Registry[id]) <= r)
                => DistanceTo(p, Registry[id]) >= res.Dist

\* C4: if an eligible driver lies within the radius of the query position,
\* queryNearest returns a driver, however many cells away that driver is.
C4_RadiusCovered ==
    \A p \in Positions, r \in QueryRadii : \A res \in QueryResults(p, r) :
       (\E id \in DOMAIN Registry :
           Eligible(Registry[id]) /\ DistanceTo(p, Registry[id]) <= r)
          => res.Found

\* C5: queryNearest never returns a driver whose most recent update marked it
\* unavailable, and no match handler answers with one.
C5_NeverUnavailable ==
    /\ \A p \in Positions, r \in QueryRadii : \A res \in QueryResults(p, r) :
          res.Found =>
             res.Driver.ID \in DOMAIN Registry /\ Registry[res.Driver.ID].Available
    /\ Matched =>
          response.DriverID \in DOMAIN Registry /\ Registry[response.DriverID].Available

\* C5 witness: a match was answered with a driver while a driver marked
\* unavailable stands strictly closer to the rider.
C5_Witness ==
    /\ Matched
    /\ \E id \in DOMAIN Registry :
          /\ ~Registry[id].Available
          /\ DistanceTo(RequestPosition, Registry[id]) < response.DistanceKM

\* C6: queryNearest never returns a stale driver, one whose last update is
\* older than the staleness threshold at query time.
C6_NeverStale ==
    /\ \A p \in Positions, r \in QueryRadii : \A res \in QueryResults(p, r) :
          res.Found => ~Stale(res.Driver)
    /\ Matched => ~Stale(Registry[response.DriverID])

\* C7: a driver is in some bucket of the index if and only if it is available
\* and its last update is within the freshness window; a driver reported
\* unavailable is in no bucket and still in the registry.
C7_IndexedIffEligible ==
    \A id \in DriverIDs :
       /\ InIndex(s2Index, id) <=> (id \in DOMAIN drivers /\ Eligible(drivers[id]))
       /\ (id \in DOMAIN drivers /\ ~drivers[id].Available) => ~InIndex(s2Index, id)

\* C8: in every state a reader can observe (it holds the read lock, or no
\* AddDriver is in progress) each driver id is in at most one bucket and an
\* available driver is in the bucket of its position's cell: a move is never
\* seen half done, with the driver in both cells or in neither.
C8_OneCellAtomicMove ==
    (rpc = "scan" \/ wpc = "idle") =>
       \A id \in DriverIDs :
          /\ Occurrences(s2Index, id) <= 1
          /\ (id \in DOMAIN drivers /\ drivers[id].Available) =>
                InBucket(s2Index, CellID(drivers[id].Lat, drivers[id].Lng), id)

\* C8 witness: a move between two cells is in progress; the driver has left
\* its old cell and has not reached the new one.
C8_Witness ==
    /\ wpc = "store"
    /\ wreq.Available
    /\ wreq.ID \in DOMAIN drivers
    /\ drivers[wreq.ID].Available
    /\ CellID(drivers[wreq.ID].Lat, drivers[wreq.ID].Lng) # CellID(wreq.Lat, wreq.Lng)
    /\ ~InIndex(s2Index, wreq.ID)

\* C9: a successful Match moves the matched driver from AVAILABLE to
\* RESERVED: once the match is answered the driver is no longer AVAILABLE.
C9_MatchReserves ==
    Matched => ~Registry[response.DriverID].Available

IDOrder == <<"driver-001", "driver-002">>

IDLess(a, b) ==
    \E i, j \in 1..Len(IDOrder) : IDOrder[i] = a /\ IDOrder[j] = b /\ i < j

\* the least distance from p of an eligible driver within r (r + 1 if there is none)
MinEligibleDistance(p, r) ==
    LET ds == {DistanceTo(p, Registry[id]) :
                  id \in {i \in DOMAIN Registry :
                             Eligible(Registry[i]) /\ DistanceTo(p, Registry[i]) <= r}}
    IN  IF ds = {} THEN r + 1 ELSE CHOOSE d \in ds : \A e \in ds : d <= e

\* C11: when several eligible drivers are at the same minimal distance from
\* the query position, queryNearest returns the one whose id is smallest in
\* lexicographic order, so the result is a function of the index contents:
\* a query has one possible result, and no eligible driver at the minimal
\* distance has a smaller id than the driver returned.
C11_TieBreakSmallestID ==
    \A p \in Positions, r \in QueryRadii :
        /\ Cardinality(QueryResults(p, r)) = 1
        /\ \A res \in QueryResults(p, r) :
              (res.Found /\ res.Dist = MinEligibleDistance(p, r)) =>
                  \A id \in DOMAIN Registry :
                      (Eligible(Registry[id]) /\ DistanceTo(p, Registry[id]) = res.Dist)
                          => ~IDLess(id, res.Driver.ID)

\* the request served by this step fails validation
InvalidRequest ==
    /\ request.Method = "POST"
    /\ \/ request.RiderID = ""
       \/ request.SessionID = ""
       \/ ~ValidCoordinates(request.Lat, request.Lng)

ClientError(status) == status >= 400 /\ status < 500

\* C12: a Match request that fails validation (empty rider or session id,
\* latitude or longitude out of range) is answered with a client error and
\* writes neither a match-attempt nor a match-outcome audit record.
C12_InvalidRejectedUnaudited ==
    InvalidRequest => (ClientError(response.Status) /\ audit = <<>>)

\* the driver updates whose latitude is outside [-90, 90]
BadDriverInputs == {d \in DriverInputs(now) : ~ValidCoordinates(d.Lat, d.Lng)}

\* C13: an update of a driver with a latitude outside [-90, 90] or a
\* longitude outside [-180, 180] is rejected: the step that applies it leaves
\* the driver registry and the spatial index unchanged.
C13_BadUpdateRejected ==
    [][\A d \in BadDriverInputs :
          (AddDriverCall(d) \/ UpdateDriverCall(d.ID, d.Lat, d.Lng, d.Available))
              => UNCHANGED <<drivers, s2Index, siDrivers>>]_vars

\* the radii a query must refuse: zero and a negative one, in metres
NonPositiveRadii == {0, -UnitM}

\* no id is in a cell the store's scan looks at, or no driver is registered
CandidatesEmpty(p) ==
    IF service = "store"
    THEN CandidateIDs(s2Index, CellsToCheck(p[1], p[2]), 1) = <<>>
    ELSE DOMAIN siDrivers = {}

\* C14: queryNearest with a radius <= 0 never returns a driver, not even an
\* eligible driver that sits exactly at the query position when the radius is
\* 0; and a query whose candidate cells are all empty returns none.
C14_NonPositiveRadiusNone ==
    \A p \in Positions :
        /\ \A r \in NonPositiveRadii : \A res \in QueryResults(p, r) : ~res.Found
        /\ CandidatesEmpty(p) =>
               \A r \in QueryRadii : \A res \in QueryResults(p, r) : ~res.Found

\* this step served a Match request that passes validation
ValidMatchServed ==
    request.Method = "POST" /\ ~InvalidRequest /\ response # NoResponse

\* no eligible driver is within the handler's radius of the rider
NoEligibleInRadius ==
    \A id \in DOMAIN Registry :
        ~(Eligible(Registry[id])
          /\ DistanceTo(RequestPosition, Registry[id]) <= HandlerRadius)

\* C15: when no eligible driver lies within the radius of a valid Match
\* request, the answer is the normal no-match outcome: status 200, success
\* false, no driver id, position or distance, and the message "no drivers
\* available within radius".
C15_NoMatchOutcome ==
    (ValidMatchServed /\ NoEligibleInRadius) =>
        response = MatchResponse(200, FALSE, "", 0, 0, 0,
                                 "no drivers available within radius")

\* C16: every Match request that passes validation writes exactly one
\* match-attempt record and, after it, exactly one match-outcome record for
\* the same rider and session; the outcome's success flag, driver id and
\* distance are those of the result returned to the caller (empty driver on
\* no-match, the matched driver otherwise).
C16_AttemptThenOutcome ==
    ValidMatchServed =>
        /\ response.Status = 200
        /\ Len(audit) = 2
        /\ audit[1] = LogMatchRequest(request.RiderID, request.SessionID)
        /\ audit[2].Kind = "MATCH_RESULT"
        /\ audit[2].RiderID = request.RiderID
        /\ audit[2].SessionID = request.SessionID
        /\ audit[2].Success = response.Success
        /\ audit[2].DriverID = response.DriverID
        /\ audit[2].DistanceKM = response.DistanceKM
        /\ response.Success <=> response.DriverID \in DOMAIN Registry

\* C16 witness: both outcomes are audited, here a match with a driver at a
\* distance from the rider.
C16_Witness ==
    /\ ValidMatchServed
    /\ Matched
    /\ response.DistanceKM > 0
    /\ Len(audit) = 2
    /\ audit[2].Success
    /\ audit[2].DriverID = response.DriverID

\* the ids of each bucket, as a bag: cell -> id -> number of occurrences
Membership(idx) ==
    [c \in DOMAIN idx |->
        [id \in DriverIDs |-> Cardinality({i \in 1..Len(idx[c]) : idx[c][i] = id})]]

\* one upsert of d in the running binary, from the state (drv, idx, sd)
Upsert(drv, idx, sd, d) ==
    IF service = "store"
    THEN [drivers |-> AddDriver(drv, idx, d).drivers,
          s2Index |-> AddDriver(drv, idx, d).s2Index, siDrivers |-> sd]
    ELSE [drivers |-> drv, s2Index |-> idx,
          siDrivers |-> UpdateDriver(sd, d.ID, d.Lat, d.Lng, d.Available, d.UpdatedAt)]

\* every result queryNearest may return in the state st
ResultsIn(st, p, r) ==
    IF service = "store"
    THEN {FindNearestDriver(st.drivers, st.s2Index, p[1], p[2], r)}
    ELSE {findMatch(st.siDrivers, o, p[1], p[2], r) : o \in Orders(DOMAIN st.siDrivers)}

\* C17: upsert is idempotent: applying it twice in a row with the same id,
\* position and availability leaves the registry and the bucket membership
\* of every cell as applying it once does, and every query a match handler
\* makes afterwards has the same result in both cases.
C17_UpsertIdempotent ==
    \A d \in DriverInputs(now) :
        LET once == Upsert(drivers, s2Index, siDrivers, d)
            twice == Upsert(once.drivers, once.s2Index, once.siDrivers, d)
        IN  /\ twice.drivers = once.drivers
            /\ twice.siDrivers = once.siDrivers
            /\ Membership(twice.s2Index) = Membership(once.s2Index)
            /\ \A p \in RiderPositions :
                   ResultsIn(twice, p, HandlerRadius) = ResultsIn(once, p, HandlerRadius)

\* C17 witness: an available driver was upserted into a bucket that already
\* held another driver, so a second application has an entry to remove and
\* a position in the bucket to keep.
C17_Witness ==
    /\ service = "store"
    /\ \E id \in DOMAIN drivers :
          LET c == CellID(drivers[id].Lat, drivers[id].Lng)
          IN  /\ drivers[id].Available
              /\ c \in DOMAIN s2Index
              /\ Len(s2Index[c]) = Cardinality(DriverIDs)
              /\ s2Index[c][Len(s2Index[c])] = id
              /\ AddDriver(drivers, s2Index, drivers[id]).s2Index = s2Index

\* C18: the index holds no empty bucket: a cell is a key of the index only
\* while at least one driver id is in its bucket, in every state a goroutine
\* can be in, the phases of AddDriver included.
C18_NoEmptyBucket ==
    \A c \in DOMAIN s2Index : Len(s2Index[c]) >= 1

\* C18 witness: AddDriver has just taken the last id out of the old cell of
\* an available driver; the cell is gone from the index while another cell
\* is still there.
C18_Witness ==
    /\ wpc = "store"
    /\ wreq.ID \in DOMAIN drivers
    /\ drivers[wreq.ID].Available
    /\ CellID(drivers[wreq.ID].Lat, drivers[wreq.ID].Lng) \notin DOMAIN s2Index
    /\ DOMAIN s2Index # {}

\* registry and index agree: what a reader must never see otherwise
IndexConsistent ==
    /\ \A c \in DOMAIN s2Index : \A i \in 1..Len(s2Index[c]) :
          /\ s2Index[c][i] \in DOMAIN drivers
          /\ CellID(drivers[s2Index[c][i]].Lat, drivers[s2Index[c][i]].Lng) = c
    /\ \A id \in DOMAIN drivers : drivers[id].Available => InIndex(s2Index, id)

C21_EncryptDecryptIdentity ==
    /\ (cryptoCall.op = "encrypt" /\ Len(plaintext) > 0) =>
          /\ ~cryptoCall.err
          /\ ciphertext = cryptoCall.out
          /\ ciphertext # plaintext
          /\ Decrypt(svc, ciphertext) = CryptoResult(FALSE, plaintext)
    /\ (cryptoCall.op = "decrypt" /\ cryptoCall.arg = ciphertext /\ Len(plaintext) > 0) =>
          (~cryptoCall.err /\ cryptoCall.out = plaintext)

\* C21 witness: a plaintext of the greatest length with a non-zero byte came
\* back from Decrypt, and no byte of it travelled unchanged.
C21_Witness ==
    /\ cryptoCall.op = "decrypt"
    /\ cryptoCall.arg = ciphertext
    /\ ~cryptoCall.err
    /\ Len(plaintext) = MaxPlainLen
    /\ cryptoCall.out = plaintext
    /\ \A i \in 1..Len(plaintext) :
          plaintext[i] # 0 /\ ciphertext[NonceSize + i] # plaintext[i]

\* C22: NewEncryptionService returns an error and no service for every key
\* whose length is not exactly 32 bytes, and a service holding the key for
\* every key of exactly 32 bytes.
C22_KeyLength32 ==
    cryptoCall.op = "new" =>
        /\ cryptoCall.err <=> Len(cryptoCall.arg) # KeySize
        /\ cryptoCall.err => svc = NilService
        /\ ~cryptoCall.err => (~svc.nil /\ svc.key = cryptoCall.arg)

\* C22 witness: a 16-byte key, which AES itself would accept, was refused.
C22_Witness ==
    /\ cryptoCall.op = "new"
    /\ Len(cryptoCall.arg) = AES128KeySize
    /\ cryptoCall.err
    /\ svc = NilService

\* C23: whenever no AddDriver is in progress, every id in a bucket of the
\* DriverStore index has a registry entry that is marked Available, the
\* bucket's key is the cell of that driver's stored position and the id
\* occurs exactly once across all buckets; conversely every Available driver
\* of the registry is in the bucket of its position's cell.
C23_IndexMatchesRegistry ==
    (service = "store" /\ wpc = "idle") =>
        /\ \A c \in DOMAIN s2Index : \A i \in 1..Len(s2Index[c]) :
              LET id == s2Index[c][i]
              IN  /\ id \in DOMAIN drivers
                  /\ drivers[id].Available
                  /\ CellID(drivers[id].Lat, drivers[id].Lng) = c
                  /\ Occurrences(s2Index, id) = 1
        /\ \A id \in DOMAIN drivers :
              drivers[id].Available =>
                  InBucket(s2Index, CellID(drivers[id].Lat, drivers[id].Lng), id)

\* C23 witness: between two calls, one driver is registered as unavailable
\* and is in no bucket while another is available and indexed, and a match
\* has been answered from that index.
C23_Witness ==
    /\ service = "store"
    /\ wpc = "idle"
    /\ \E id \in DOMAIN drivers : ~drivers[id].Available /\ ~InIndex(s2Index, id)
    /\ \E id \in DOMAIN drivers : drivers[id].Available /\ InIndex(s2Index, id)
    /\ response.Status = 200

\* the steps of a ride's status, part_002:19-26 with the tests of the handlers
RideSteps == {<<RideRequested, RideMatched>>, <<RideMatched, RideStarted>>,
              <<RideStarted, RideCompleted>>}

\* C24: under every interleaving of create, match, start and complete requests
\* a ride enters the store REQUESTED, stays in the store, and each step either
\* keeps its status or moves it one step along REQUESTED -> MATCHED -> STARTED
\* -> COMPLETED; nothing leaves COMPLETED
C24_StatusAdvances ==
    [][/\ \A id \in DOMAIN rides :
             /\ id \in DOMAIN rides'
             /\ \/ rides'[id].Status = rides[id].Status
                \/ <<rides[id].Status, rides'[id].Status>> \in RideSteps
       /\ \A id \in DOMAIN rides' \ DOMAIN rides : rides'[id].Status = RideRequested]_vars

\* a completed ride has just refused a match request
C24_Witness ==
    /\ service = "rides"
    /\ \E id \in DOMAIN rides :
          /\ rides[id].Status = RideCompleted
          /\ rides[id].MatchedAt < rides[id].StartedAt
          /\ rides[id].StartedAt < rides[id].CompletedAt
          /\ rideResp.op = "match" /\ rideResp.id = id /\ rideResp.status = 400

\* the step answers the request on ride id with 404 when the store has no such
\* ride and with 400 otherwise, and leaves both stores and the other requests alone
RideRejected(g, id) ==
    /\ rideResp'.g = g /\ rideResp'.id = id
    /\ rideResp'.status = (IF id \in DOMAIN rides THEN 400 ELSE 404)
    /\ rideResp'.body = NoBody
    /\ UNCHANGED <<rides, logs, rideMu, reqs>>

\* the ride id is unknown, or the ride is not in the status from
NotInStatus(id, from) == id \notin DOMAIN rides \/ rides[id].Status # from

\* C25: a match of a ride that is not REQUESTED, a start of one that is not
\* MATCHED, a complete of one that is not STARTED, and any of them for an unknown
\* ride id, is answered 400 (404 for the unknown id) and changes no field of any ride
C25_WrongStatusRejected ==
    [][\A g \in Goroutines, id \in RidePaths :
          /\ \A driverID \in RideDriverIDs \ {""} :
                (matchRideHandler(g, id, driverID) /\ NotInStatus(id, RideRequested))
                    => RideRejected(g, id)
          /\ (startRideHandler(g, id) /\ NotInStatus(id, RideMatched)) => RideRejected(g, id)
          /\ \A rtb \in BOOLEAN :
                (completeRideHandler(g, id, rtb) /\ NotInStatus(id, RideStarted))
                    => RideRejected(g, id)]_vars

\* a start has just been refused on a ride that is already started, while the
\* other goroutine still has the response of that start to encode
C25_Witness ==
    /\ service = "rides"
    /\ rideResp.op = "start" /\ rideResp.status = 400
    /\ rideResp.id \in DOMAIN rides
    /\ rides[rideResp.id].Status = RideStarted
    /\ \E g \in Goroutines : reqs[g].op = "start" /\ reqs[g].pc = "encode"

\* the goroutines whose match of ride id passed the status test and has not
\* answered yet
MatchWinners(id) ==
    {g \in Goroutines : reqs[g].op = "match" /\ reqs[g].id = id
                        /\ reqs[g].pc \in {"write", "encode"}}

\* the step lets the match request of goroutine g through the status test
MatchAccepted(g) ==
    reqs[g].pc = "idle" /\ reqs'[g].op = "match" /\ reqs'[g].pc = "write"

\* C26: of the match requests for one ride, whatever their interleaving, one is
\* let through, on a ride that is REQUESTED and has no driver yet, and the ride
\* gets that request's driver id; a driver id once set is never assigned again,
\* so every other match request of the ride is answered 400
C26_OneMatchWins ==
    /\ [](\A id \in DOMAIN rides :
             /\ Cardinality(MatchWinners(id)) <= 1
             /\ \A g \in MatchWinners(id) : rides[id].DriverID = reqs[g].driverID)
    /\ [][/\ \A id \in DOMAIN rides :
                rides[id].DriverID # "" => rides'[id].DriverID = rides[id].DriverID
          /\ \A g \in Goroutines :
                MatchAccepted(g) =>
                    LET id == reqs'[g].id
                    IN  /\ id \in DOMAIN rides
                        /\ rides[id].DriverID = "" /\ rides[id].Status = RideRequested
                        /\ rides'[id].DriverID = reqs'[g].driverID
          /\ \A g \in Goroutines, id \in DOMAIN rides, driverID \in RideDriverIDs \ {""} :
                (matchRideHandler(g, id, driverID) /\ rides[id].DriverID # "")
                    => (rideResp'.status = 400 /\ UNCHANGED rides)]_vars

\* the first match is still encoding its response when the match of the other
\* goroutine, for another driver, is refused
C26_Witness ==
    /\ service = "rides"
    /\ \E g \in Goroutines, id \in DOMAIN rides :
          /\ reqs[g].op = "match" /\ reqs[g].id = id /\ reqs[g].pc = "encode"
          /\ rides[id].DriverID = reqs[g].driverID
          /\ rideResp.g # g /\ rideResp.op = "match" /\ rideResp.id = id
          /\ rideResp.driverID \notin {"", reqs[g].driverID}
          /\ rideResp.status = 400

\* the status a successful transition request writes
WrittenStatus(op) ==
    IF op = "match" THEN RideMatched
    ELSE IF op = "start" THEN RideStarted
    ELSE RideCompleted

\* C27: under every interleaving, the ride in the body of a successful match,
\* start or complete response shows the state that request wrote: the status it
\* set and, for a match, its driver id, not what a later request made of the ride
C27_ResponseShowsOwnWrite ==
    (rideResp.status = 200 /\ rideResp.op \in {"match", "start", "complete"}) =>
        /\ rideResp.body.ID = rideResp.id
        /\ rideResp.body.Status = WrittenStatus(rideResp.op)
        /\ rideResp.op = "match" => rideResp.body.DriverID = rideResp.driverID

\* C28: an end request for an unknown log id is answered 404 and one for a log
\* that has an end time 400, both without changing anything; an end request for
\* a log without end time sets it and goes on to answer 200 with the ended log;
\* no step changes a log that has an end time, so of all end requests on a log
\* exactly the first succeeds
C28_EndedOnce ==
    /\ []((rideResp.op = "rtb_end" /\ rideResp.status = 200) =>
             /\ rideResp.body.ID = rideResp.id
             /\ rideResp.body.ReturnEndedAt # NilTime
             /\ rideResp.body = logs[rideResp.id])
    /\ [][/\ \A id \in DOMAIN logs :
                /\ id \in DOMAIN logs'
                /\ logs[id].ReturnEndedAt # NilTime => logs'[id] = logs[id]
          /\ \A g \in Goroutines, id \in LogPaths :
                endReturnToBaseHandler(g, id) =>
                    IF id \notin DOMAIN logs
                    THEN rideResp'.status = 404 /\ UNCHANGED <<rides, logs, reqs>>
                    ELSE IF logs[id].ReturnEndedAt # NilTime
                    THEN rideResp'.status = 400 /\ UNCHANGED <<rides, logs, reqs>>
                    ELSE /\ logs' = [logs EXCEPT ![id].ReturnEndedAt = now]
                         /\ reqs'[g].op = "rtb_end" /\ reqs'[g].pc = "encode"
                         /\ rideResp'.status = 0]_vars

\* the first end request is still encoding its response when the end request
\* of the other goroutine on the same log is refused
C28_Witness ==
    /\ service = "rides"
    /\ \E g \in Goroutines, id \in DOMAIN logs :
          /\ reqs[g].op = "rtb_end" /\ reqs[g].id = id /\ reqs[g].pc = "encode"
          /\ logs[id].ReturnEndedAt = reqs[g].t
          /\ rideResp.g # g /\ rideResp.op = "rtb_end" /\ rideResp.id = id
          /\ rideResp.status = 400

\* the request handlePrice computed a price for
PricedRequest == parsePriceRequest(priceReq).req

\* handlePrice has got as far as calculatePrice
Priced == service = "pricing" /\ priceResp.status = 200

\* C29: for demand >= 0 and supply >= 0 the surge multiplier lies between 1.0
\* and MaxSurgeMultiplier (2.0); it is 2.0 when supply is 0 or demand is at
\* least three times supply, 1.0 when supply is positive and demand is 0 or at
\* most supply, and one more unit of demand never lowers it
C29_SurgeBounded ==
    Priced =>
        LET demand == PricedRequest.Demand
            supply == PricedRequest.Supply
            m == priceResp.price.SurgeMultiplier
        IN  /\ demand >= 0 /\ supply >= 0
            /\ m = calculateSurgeMultiplier(demand, supply)
            /\ SurgeScale <= m /\ m <= MaxSurgeMultiplier
            /\ (supply = 0 \/ demand >= FullSurgeRatio * supply) => m = MaxSurgeMultiplier
            /\ (supply > 0 /\ demand <= supply) => m = SurgeScale
            /\ m <= calculateSurgeMultiplier(demand + 1, supply)

\* a price with a multiplier strictly between 1.0 and 2.0 has been sent
C29_Witness ==
    /\ Priced /\ priceResp.sent
    /\ PricedRequest.Supply > 0
    /\ PricedRequest.Demand > PricedRequest.Supply
    /\ SurgeScale < priceResp.price.SurgeMultiplier
    /\ priceResp.price.SurgeMultiplier < MaxSurgeMultiplier

\* float64 >=
FGeq(a, b) == ~a.nan /\ ~b.nan /\ a.v >= b.v

\* (FinalPrice - BasePrice) / DistanceKm >= MinPricePerKmEUR, for a distance > 0
AtLeastMinPerKm(final, base, distance) ==
    /\ ~final.nan /\ ~distance.nan
    /\ distance.v > 0
    /\ final.v - base.v >= (MinPricePerKmEUR * distance.v) \div DistanceScale

\* C30: for every request that passes validatePriceRequest the FinalPrice of
\* calculatePrice is at least MinimumFareEUR (5.00) and at least the Subtotal
\* before surge, and (FinalPrice - BasePrice) / DistanceKm is at least
\* MinPricePerKmEUR (1.50)
C30_PriceFloors ==
    Priced =>
        LET price == priceResp.price
        IN  /\ FGeq(price.FinalPrice, Num(MinimumFareEUR))
            /\ FGeq(price.FinalPrice, price.Subtotal)
            /\ AtLeastMinPerKm(price.FinalPrice, price.BasePrice, PricedRequest.DistanceKm)

====
